---- MODULE Spec2Model ----
(***************************************************************************)
(* Model of src/main.py: a chat bot whose /download command runs a         *)
(* pipeline (key fetch, archive download, expansion, segment location,     *)
(* rename-only transformation, placeholder output) inside a scoped         *)
(* temporary directory, and whose /set_api_token command stores a          *)
(* process-wide credential.                                                *)
(*                                                                         *)
(* Strings are sequences of one-character strings.  Optional values        *)
(* (Python None) are sequences of length 0 or 1: None is <<>> and a        *)
(* present value x is <<x>>.  Handlers are asyncio coroutines: a step of   *)
(* the model runs one coroutine from one suspension point (an await that   *)
(* really yields: a chat reply, an HTTP exchange) towards the next; the    *)
(* variable running marks a coroutine that is inside a synchronous         *)
(* section, during which no other coroutine can take a step.               *)
(***************************************************************************)
EXTENDS Integers, Sequences, FiniteSets, TLC

\* ------------------------------------------------------------------ bounds
MaxReq == 2

\* ----------------------------------------------------------------- strings
None == <<>>
Some(x) == <<x>>

StartsWith(s, p) == Len(s) >= Len(p) /\ SubSeq(s, 1, Len(p)) = p
EndsWith(s, p) == Len(s) >= Len(p) /\ SubSeq(s, Len(s) - Len(p) + 1, Len(s)) = p

RECURSIVE Strip(_)
Strip(s) ==
    IF s = <<>> THEN s
    ELSE IF Head(s) = " " THEN Strip(Tail(s))
    ELSE IF s[Len(s)] = " " THEN Strip(SubSeq(s, 1, Len(s) - 1))
    ELSE s

\* str.split(sep) for a one-character separator: the list of segments
RECURSIVE SplitFrom(_, _, _)
SplitFrom(s, sep, cur) ==
    IF s = <<>> THEN <<cur>>
    ELSE IF Head(s) = sep THEN <<cur>> \o SplitFrom(Tail(s), sep, <<>>)
    ELSE SplitFrom(Tail(s), sep, Append(cur, Head(s)))

Split(s, sep) == SplitFrom(s, sep, <<>>)

\* Python truthiness of an optional string: None and "" are falsy
Truthy(opt) == opt # None /\ opt[1] # <<>>

HexChars == {"a", "b", "c", "d", "e", "f", "0", "1", "2", "3", "4", "5", "6", "7", "8", "9"}
EncPrefix == <<"e", "n", "c", "r", "y", "p", "t", "e", "d", "-">>

\* length of the maximal run of hex characters of s starting at position i
RECURSIVE HexRun(_, _)
HexRun(s, i) ==
    IF i <= Len(s) /\ s[i] \in HexChars THEN 1 + HexRun(s, i + 1) ELSE 0

\* MatchStarts for r'encrypted-([a-f0-9]*)': the hex run may be empty
MatchStarts_EmptyRun(s) ==
    {i \in 1..Len(s) :
        /\ i + Len(EncPrefix) - 1 <= Len(s)
        /\ SubSeq(s, i, i + Len(EncPrefix) - 1) = EncPrefix}

\* positions where r'encrypted-([a-f0-9]+)' matches
MatchStarts(s) ==
    {i \in 1..Len(s) :
        /\ i + Len(EncPrefix) - 1 <= Len(s)
        /\ SubSeq(s, i, i + Len(EncPrefix) - 1) = EncPrefix
        /\ HexRun(s, i + Len(EncPrefix)) >= 1}

\* re.search(...): None, or match.group(0) of the leftmost, greedy match
EncryptionId(zipurl) ==
    IF MatchStarts(zipurl) = {} THEN None
    ELSE LET i == CHOOSE k \in MatchStarts(zipurl) : \A j \in MatchStarts(zipurl) : k <= j
         IN  Some(SubSeq(zipurl, i, i + Len(EncPrefix) + HexRun(zipurl, i + Len(EncPrefix)) - 1))

\* ------------------------------------------------------------------ inputs
TokABC == <<"a", ".", "b", ".", "c">>
TokXYZPadded == <<" ", "x", ".", "y", ".", "z", " ">>
TokFour == <<"n", "o", "t", ".", "a", ".", "j", "w", "t", ".", "t", "o", "k", "e", "n">>
TokOne == <<"a", "b">>

\* command.args of /set_api_token
SetArgs == {None, Some(TokABC), Some(TokXYZPadded), Some(TokFour), Some(TokOne)}

UrlGood == <<"h", "t", "t", "p", "s", ":", "/", "/", "h", "/", "e", "n", "c", "r", "y", "p", "t", "e", "d", "-", "a", "1", ".", "z", "i", "p">>
UrlNoId == <<"h", "t", "t", "p", ":", "/", "/", "h", "/", "e", "n", "c", ".", "z", "i", "p">>
UrlBadScheme == <<"f", "t", "p", ":", "/", "/", "h", "/", "e", "n", "c", "r", "y", "p", "t", "e", "d", "-", "a", "1", ".", "z", "i", "p">>
UrlNotZip == <<"h", "t", "t", "p", "s", ":", "/", "/", "h", "/", "e", "n", "c", "r", "y", "p", "t", "e", "d", "-", "a", "1", ".", "r", "a", "r">>
UrlUpperHex == <<"h", "t", "t", "p", "s", ":", "/", "/", "h", "/", "e", "n", "c", "r", "y", "p", "t", "e", "d", "-", "A", "1", ".", "z", "i", "p">>

\* command.args of /download
DownloadArgs == {None, Some(UrlGood), Some(UrlNoId), Some(UrlBadScheme), Some(UrlNotZip)}

\* -------------------------------------------------------------- filesystem
(***************************************************************************)
(* A path is [ws, rel]: ws identifies the directory tempfile created (its  *)
(* random name) and rel is the path below it, a sequence of chunks: "/"    *)
(* separators, name stems and extensions such as ".tsa".  The filesystem   *)
(* is a set of entries [ws, rel, kind, data].                              *)
(***************************************************************************)
MarkerExt == ".tsa"
TargetExt == ".mp4"

PathOf(e) == [ws |-> e.ws, rel |-> e.rel]
Exists(fsx, p) == \E e \in fsx : PathOf(e) = p
IsDir(fsx, p) == \E e \in fsx : PathOf(e) = p /\ e.kind = "dir"
IsFile(fsx, p) == \E e \in fsx : PathOf(e) = p /\ e.kind = "file"
DataAt(fsx, p) == (CHOOSE e \in fsx : PathOf(e) = p).data

\* os.path.join(p, name)
Join(p, name) ==
    [ws |-> p.ws, rel |-> IF p.rel = <<>> THEN name ELSE p.rel \o <<"/">> \o name]

\* os.path.dirname
RECURSIVE DirnameRel(_)
DirnameRel(rel) ==
    IF rel = <<>> THEN <<>>
    ELSE IF rel[Len(rel)] = "/" THEN SubSeq(rel, 1, Len(rel) - 1)
    ELSE DirnameRel(SubSeq(rel, 1, Len(rel) - 1))

Dirname(p) == [ws |-> p.ws, rel |-> DirnameRel(p.rel)]

Depth(rel) == Cardinality({i \in 1..Len(rel) : rel[i] = "/"})

\* open(path, 'wb') followed by writes: None when open raises OSError
WriteFile(fsx, p, data) ==
    IF IsDir(fsx, p) \/ ~IsDir(fsx, Dirname(p)) THEN None
    ELSE Some({e \in fsx : PathOf(e) # p}
              \cup {[ws |-> p.ws, rel |-> p.rel, kind |-> "file", data |-> data]})

\* os.rename(src, dst) of a regular file: None when it raises OSError
Rename(fsx, src, dst) ==
    IF ~IsFile(fsx, src) \/ IsDir(fsx, dst) \/ ~IsDir(fsx, Dirname(dst)) THEN None
    ELSE IF src = dst THEN Some(fsx)
    ELSE Some({e \in fsx : PathOf(e) # src /\ PathOf(e) # dst}
              \cup {[ws |-> dst.ws, rel |-> dst.rel, kind |-> "file", data |-> DataAt(fsx, src)]})

\* os.remove(path): None when it raises OSError
Remove(fsx, p) ==
    IF ~IsFile(fsx, p) THEN None ELSE Some({e \in fsx : PathOf(e) # p})

\* CleanupWorkspace deleting the archive only
CleanupWorkspace_ZipOnly(fsx, ws) ==
    {e \in fsx : ~(e.ws = ws /\ e.rel = <<"downloaded", ".zip">>)}

\* CleanupWorkspace deleting nothing
CleanupWorkspace_Leak(fsx, ws) == fsx

\* tempfile.TemporaryDirectory().__exit__: recursive deletion of the directory
CleanupWorkspace(fsx, ws) == {e \in fsx : e.ws # ws}

TmpIds == 1..MaxReq

\* Mkdtemp with a fixed directory name
Mkdtemp_Fixed(fsx) == {1}

\* tempfile.mkdtemp: the names it can return, those not taken in the filesystem
Mkdtemp(fsx) == {ws \in TmpIds : ~Exists(fsx, [ws |-> ws, rel |-> <<>>])}

TempDirPath(ws) == [ws |-> ws, rel |-> <<>>]
ZipFilePath(ws) == Join(TempDirPath(ws), <<"downloaded", ".zip">>)
ExtractedPath(ws) == Join(TempDirPath(ws), <<"extracted">>)
OutputName == <<"simulated_output", ".mkv">>

\* os.makedirs(path, exist_ok=True) for a path directly below an existing directory
Makedirs(fsx, p) ==
    IF Exists(fsx, p) THEN fsx
    ELSE fsx \cup {[ws |-> p.ws, rel |-> p.rel, kind |-> "dir", data |-> ""]}

\* ---------------------------------------------------------------- archives
(***************************************************************************)
(* What the archive GET can deliver: the ZIP's entries (files and          *)
(* directories, relative paths), or bytes that are not a ZIP at all.       *)
(***************************************************************************)
ArchiveIds == {"scenario", "nested", "empty", "dotdir", "blocked", "collide", "mkvdir", "corrupt"}

Archive(id) ==
    CASE id = "scenario" ->
            [valid |-> TRUE, dirs |-> {},
             files |-> {<<"seg1", ".tsa">>, <<"seg2", ".tsa">>, <<"notes", ".txt">>}]
      [] id = "nested" ->
            [valid |-> TRUE, dirs |-> {<<"d">>},
             files |-> {<<"d", "/", "seg1", ".tsa">>, <<"readme">>}]
      [] id = "empty" ->
            [valid |-> TRUE, dirs |-> {}, files |-> {}]
      [] id = "dotdir" ->
            [valid |-> TRUE, dirs |-> {<<"x", ".tsa">>},
             files |-> {<<"x", ".tsa", "/", "seg", ".tsa">>}]
      [] id = "blocked" ->
            [valid |-> TRUE, dirs |-> {<<"seg", ".mp4">>},
             files |-> {<<"seg", ".tsa">>, <<"seg2", ".tsa">>}]
      [] id = "collide" ->
            [valid |-> TRUE, dirs |-> {<<"x", ".tsa">>, <<"x", ".mp4">>},
             files |-> {<<"x", ".tsa", "/", "seg", ".tsa">>, <<"x", ".mp4", "/", "seg", ".tsa">>}]
      [] id = "mkvdir" ->
            [valid |-> TRUE, dirs |-> {OutputName}, files |-> {}]
      [] OTHER ->
            [valid |-> FALSE, dirs |-> {}, files |-> {}]

\* zipfile.ZipFile(zip_path).extractall(extract_to): None when it raises BadZipFile
ExtractAll(fsx, zipPath, extractTo) ==
    LET a == Archive(DataAt(fsx, zipPath))
    IN  IF ~a.valid THEN None
        ELSE Some({e \in fsx : \A n \in a.files : PathOf(e) # Join(extractTo, n)}
                  \cup {[ws |-> extractTo.ws, rel |-> Join(extractTo, n).rel,
                         kind |-> "dir", data |-> ""] : n \in a.dirs}
                  \cup {[ws |-> extractTo.ws, rel |-> Join(extractTo, n).rel,
                         kind |-> "file", data |-> "segment"] : n \in a.files})

\* ------------------------------------------------------------------- state
Reqs == 1..MaxReq

VARIABLES
    VERCEL_API_TOKEN,  \* the process-wide credential: None or Some(string)
    fs,                \* the filesystem
    running,           \* None, or Some(r): request r is inside a synchronous section
    req                \* req[r]: the coroutine of the r-th /download command (see InitReq)

vars == <<VERCEL_API_TOKEN, fs, running, req>>

InitReq ==
    [pc |-> "idle",            \* where the coroutine stands
     caller |-> "none",        \* who awaits process_appx_zip_logic: "handler" or "direct"
     cmdArgs |-> None,         \* command.args of the /download message
     zipurl |-> <<>>,          \* the argument of process_appx_zip_logic
     tokenAtAccept |-> None,   \* the credential that passed the handler's check of line 173,
                               \*   remembered until the key service has replied
     hls_key |-> None,         \* locals of process_appx_zip_logic
     temp_dir |-> None,        \*   None outside the with block, else Some(ws)
     segment_files |-> <<>>,
     decrypted_files |-> <<>>, \*   what decrypt_files_placeholder returned
     output_mkv_path |-> None, \* what process_appx_zip_logic returned: None or Some(path)
     reply |-> "none",         \* the last chat reply of the /download handler
     http |-> None,            \* the HTTP exchange in flight: None or Some([method, token, target])
     netCalls |-> <<>>,        \* the methods of the HTTP requests issued so far, in order
     stageLog |-> <<>>,        \* the pipeline stages begun, in order
     stageDone |-> <<>>,       \* the pipeline stages completed, in order
     failed |-> None]          \* None, or Some([stage, kind]): the failure that ended the run

Init ==
    /\ VERCEL_API_TOKEN = None
    /\ fs = {}
    /\ running = None
    /\ req = [r \in Reqs |-> InitReq]

\* ------------------------------------------------------- set_api_token_handler
\* ValidToken with "at least three segments"
ValidToken_AtLeastThree(args) == Len(Split(args, ".")) >= 3

\* ValidToken with "at most three segments"
ValidToken_AtMostThree(args) == Len(Split(args, ".")) <= 3

\* the shape check: len(args.split(".")) != 3
ValidToken(args) == Len(Split(args, ".")) = 3

\* the whole handler: no await separates the checks from the assignment, and
\* each path ends with one reply, which touches no state
SetApiToken(args) ==
    /\ running = None
    /\ VERCEL_API_TOKEN' =
          IF ~Truthy(args) THEN VERCEL_API_TOKEN
          ELSE IF ~ValidToken(args[1]) THEN VERCEL_API_TOKEN
          ELSE Some(Strip(args[1]))
    /\ UNCHANGED <<fs, running, req>>

\* ---------------------------------------------------- download_command_handler
HttpPrefix == <<"h", "t", "t", "p", ":", "/", "/">>
HttpsPrefix == <<"h", "t", "t", "p", "s", ":", "/", "/">>
ZipSuffix == <<".", "z", "i", "p">>

\* ValidUrl without the suffix check
ValidUrl_SchemeOnly(u) == StartsWith(u, HttpPrefix) \/ StartsWith(u, HttpsPrefix)

\* the URL check of line 177, negated
ValidUrl(u) == (StartsWith(u, HttpPrefix) \/ StartsWith(u, HttpsPrefix)) /\ EndsWith(u, ZipSuffix)

\* the handler returns: its frame is discarded, the chat keeps its reply
Finished(q, text) == [InitReq EXCEPT !.pc = "done", !.reply = text, !.cmdArgs = q.cmdArgs]

\* the r-th command arrives once the commands before it have
Arrived(r) == \A k \in Reqs : k < r => req[k].pc # "idle"

\* lines 167-180: validation, then the "Processing URL" reply, at whose await the
\* handler is suspended before it calls process_appx_zip_logic
DownloadCommand(r, args) ==
    /\ running = None
    /\ req[r].pc = "idle"
    /\ Arrived(r)
    /\ LET q == [req[r] EXCEPT !.cmdArgs = args]
       IN  req' = [req EXCEPT ![r] =
              IF ~Truthy(args) THEN Finished(q, "usage")
              ELSE IF ~Truthy(VERCEL_API_TOKEN) THEN Finished(q, "no_token")
              ELSE IF ~ValidUrl(Strip(args[1])) THEN Finished(q, "invalid_url")
              ELSE [q EXCEPT !.reply = "processing",
                             !.pc = "enter",
                             !.caller = "handler",
                             !.zipurl = Strip(args[1]),
                             !.tokenAtAccept = VERCEL_API_TOKEN]]
    /\ UNCHANGED <<VERCEL_API_TOKEN, fs, running>>

\* process_appx_zip_logic awaited by a caller other than the handler
CallDirect(r, u) ==
    /\ running = None
    /\ req[r].pc = "idle"
    /\ Arrived(r)
    /\ req' = [req EXCEPT ![r] = [@ EXCEPT !.pc = "enter", !.caller = "direct", !.zipurl = u]]
    /\ UNCHANGED <<VERCEL_API_TOKEN, fs, running>>

\* ------------------------------------------------------ process_appx_zip_logic
\* the classes the stages raise; all derive from Exception
ExceptionClasses ==
    {"ValueError", "KeyError", "ClientResponseError", "ClientPayloadError", "BadZipFile", "OSError"}

\* CaughtByOrchestrator as "except OSError"
CaughtByOrchestrator_OnlyOSError(kind) == kind = "OSError"

\* "except Exception as e" of line 134
CaughtByOrchestrator(kind) == kind \in ExceptionClasses

OutputPath(ws) == Join(ExtractedPath(ws), OutputName)

\* line 183 of the handler, which runs in the same step as the return it awaits
AfterReturn(q, res, fsx) ==
    IF q.caller = "direct" THEN "returned"
    ELSE IF res # None /\ Exists(fsx, res[1]) THEN "sending"
    ELSE "fail_reply"

\* the frame of process_appx_zip_logic is discarded when the function is left,
\* and the "async with" blocks it leaves close their HTTP exchange
LocalsDropped(q) ==
    [q EXCEPT !.hls_key = None, !.temp_dir = None, !.http = None,
              !.segment_files = <<>>, !.decrypted_files = <<>>]

\* process_appx_zip_logic returns res, the filesystem being fsAfter
Returned(q, res, fsAfter) ==
    [LocalsDropped(q) EXCEPT !.output_mkv_path = res, !.pc = AfterReturn(q, res, fsAfter)]

\* a stage raises kind; fsAfter is the filesystem once the with block is unwound
Raised(q, stage, kind, fsAfter) ==
    IF CaughtByOrchestrator(kind)
    THEN [Returned(q, None, fsAfter) EXCEPT !.failed = Some([stage |-> stage, kind |-> kind])]
    ELSE [LocalsDropped(q) EXCEPT !.pc = "crashed",
                                  !.failed = Some([stage |-> stage, kind |-> kind])]

Begin(q, stage) == [q EXCEPT !.stageLog = Append(@, stage)]
Complete(q, stage) == [q EXCEPT !.stageDone = Append(@, stage)]

\* NoCredential with the guard dropped
NoCredential_Never(tok) == FALSE

\* NoCredential with the test inverted
NoCredential_Inverted(tok) == Truthy(tok)

\* the guard of line 105
NoCredential(tok) == ~Truthy(tok)

\* KeyFetchToken with the credential captured when the command was accepted
KeyFetchToken_AtAccept(q) == q.tokenAtAccept

\* the credential handed to get_hls_key at line 109 (an optional: None stays None)
KeyFetchToken(q) == VERCEL_API_TOKEN

\* lines 100-109 and 28-45: the guard, the id extraction, the POST being sent
EnterOrchestrator(r) ==
    /\ running = None
    /\ req[r].pc = "enter"
    /\ LET q == req[r]
           id == EncryptionId(q.zipurl)
       IN  req' = [req EXCEPT ![r] =
              IF NoCredential(VERCEL_API_TOKEN)
              THEN [Returned(q, None, fs) EXCEPT
                       !.failed = Some([stage |-> "guard", kind |-> "NoCredential"])]
              ELSE IF id = None
              THEN Raised(Begin(q, "key"), "key", "ValueError", fs)
              ELSE [Begin(q, "key") EXCEPT
                       !.pc = "await_key",
                       !.http = Some([method |-> "POST", token |-> KeyFetchToken(q),
                                      target |-> id[1]]),
                       !.netCalls = Append(@, "POST")]]
    /\ UNCHANGED <<VERCEL_API_TOKEN, fs, running>>

HttpStatuses == {200, 404, 500}
KeyValue == <<"a", "b", "c", "1", "2", "3">>
\* the JSON object of the key service's reply: data.get('key') is body.key
KeyBodies == {[key |-> Some(KeyValue)], [key |-> Some(<<>>)], [key |-> None]}

\* lines 111-116 and 58-60: the workspace is created and the archive GET is sent
StartDownload(r, q) ==
    \E ws \in Mkdtemp(fs) :
        /\ fs' = Makedirs(Makedirs(fs, TempDirPath(ws)), ExtractedPath(ws))
        /\ req' = [req EXCEPT ![r] =
              [Begin(q, "download") EXCEPT
                  !.temp_dir = Some(ws),
                  !.pc = "await_download",
                  !.http = Some([method |-> "GET", token |-> <<>>, target |-> q.zipurl]),
                  !.netCalls = Append(@, "GET")]]

\* KeyMissing as "key is None"
KeyMissing_NoneOnly(key) == key = None

\* "if not key" of line 52
KeyMissing(key) == ~Truthy(key)

\* KeyResponse with the missing key logged but not raised
KeyResponse_Swallow(r, status, body) ==
    /\ running = None
    /\ req[r].pc = "await_key"
    /\ LET q == [req[r] EXCEPT !.tokenAtAccept = None, !.http = None]
       IN  IF status >= 400
           THEN /\ req' = [req EXCEPT ![r] = Raised(q, "key", "ClientResponseError", fs)]
                /\ UNCHANGED fs
           ELSE IF KeyMissing(body.key)
           THEN StartDownload(r, [q EXCEPT !.failed = Some([stage |-> "key", kind |-> "KeyError"])])
           ELSE StartDownload(r, [Complete(q, "key") EXCEPT !.hls_key = body.key])
    /\ UNCHANGED <<VERCEL_API_TOKEN, running>>

\* KeyResponse with the body examined before the status
KeyResponse_BodyFirst(r, status, body) ==
    /\ running = None
    /\ req[r].pc = "await_key"
    /\ LET q == [req[r] EXCEPT !.tokenAtAccept = None, !.http = None]
       IN  IF KeyMissing(body.key)
           THEN /\ req' = [req EXCEPT ![r] = Raised(q, "key", "KeyError", fs)]
                /\ UNCHANGED fs
           ELSE IF status >= 400
           THEN /\ req' = [req EXCEPT ![r] = Raised(q, "key", "ClientResponseError", fs)]
                /\ UNCHANGED fs
           ELSE StartDownload(r, [Complete(q, "key") EXCEPT !.hls_key = body.key])
    /\ UNCHANGED <<VERCEL_API_TOKEN, running>>

\* lines 46-55, then 111-116 and 58-60: the key reply is read, the workspace is
\* created and the archive GET is sent
KeyResponse(r, status, body) ==
    /\ running = None
    /\ req[r].pc = "await_key"
    /\ LET q == [req[r] EXCEPT !.tokenAtAccept = None, !.http = None]
       IN  IF status >= 400
           THEN /\ req' = [req EXCEPT ![r] = Raised(q, "key", "ClientResponseError", fs)]
                /\ UNCHANGED fs
           ELSE IF KeyMissing(body.key)
           THEN /\ req' = [req EXCEPT ![r] = Raised(q, "key", "KeyError", fs)]
                /\ UNCHANGED fs
           ELSE StartDownload(r, [Complete(q, "key") EXCEPT !.hls_key = body.key])
    /\ UNCHANGED <<VERCEL_API_TOKEN, running>>

\* DownloadResponse with the GET sent again after an error status
DownloadResponse_Retry(r, status) ==
    /\ running = None
    /\ req[r].pc = "await_download"
    /\ LET q == req[r]
           ws == q.temp_dir[1]
           w == WriteFile(fs, ZipFilePath(ws), "partial")
       IN  IF status >= 400
           THEN /\ req' = [req EXCEPT ![r] = [q EXCEPT !.netCalls = Append(@, "GET")]]
                /\ UNCHANGED fs
           ELSE IF w = None
           THEN /\ req' = [req EXCEPT ![r] =
                      Raised(q, "download", "OSError", CleanupWorkspace(fs, ws))]
                /\ fs' = CleanupWorkspace(fs, ws)
           ELSE /\ req' = [req EXCEPT ![r] = [q EXCEPT !.pc = "downloading"]]
                /\ fs' = w[1]
    /\ UNCHANGED <<VERCEL_API_TOKEN, running>>

\* lines 60-62: the status of the archive reply is checked and the file is opened
DownloadResponse(r, status) ==
    /\ running = None
    /\ req[r].pc = "await_download"
    /\ LET q == req[r]
           ws == q.temp_dir[1]
           w == WriteFile(fs, ZipFilePath(ws), "partial")
           gone == CleanupWorkspace(fs, ws)
       IN  IF status >= 400
           THEN /\ req' = [req EXCEPT ![r] = Raised(q, "download", "ClientResponseError", gone)]
                /\ fs' = gone
           ELSE IF w = None
           THEN /\ req' = [req EXCEPT ![r] = Raised(q, "download", "OSError", gone)]
                /\ fs' = gone
           ELSE /\ req' = [req EXCEPT ![r] = [q EXCEPT !.pc = "downloading"]]
                /\ fs' = w[1]
    /\ UNCHANGED <<VERCEL_API_TOKEN, running>>

\* lines 63-68: the body is streamed to the file; the stream can break.  What
\* follows the last chunk runs without suspension up to the handler's next reply.
DownloadBody(r, id, ok) ==
    /\ running = None
    /\ req[r].pc = "downloading"
    /\ LET q == req[r]
           ws == q.temp_dir[1]
           w == WriteFile(fs, ZipFilePath(ws), id)
           gone == CleanupWorkspace(fs, ws)
       IN  IF ~ok
           THEN /\ req' = [req EXCEPT ![r] = Raised(q, "download", "ClientPayloadError", gone)]
                /\ fs' = gone
                /\ UNCHANGED running
           ELSE IF w = None
           THEN /\ req' = [req EXCEPT ![r] = Raised(q, "download", "OSError", gone)]
                /\ fs' = gone
                /\ UNCHANGED running
           ELSE /\ req' = [req EXCEPT ![r] =
                      [Complete(q, "download") EXCEPT !.pc = "extract", !.http = None]]
                /\ fs' = w[1]
                /\ running' = Some(r)
    /\ UNCHANGED VERCEL_API_TOKEN

\* line 117, extract_zip
ExtractZip(r) ==
    /\ running = Some(r)
    /\ req[r].pc = "extract"
    /\ LET q == Begin(req[r], "expand")
           ws == q.temp_dir[1]
           x == ExtractAll(Makedirs(fs, ExtractedPath(ws)), ZipFilePath(ws), ExtractedPath(ws))
           gone == CleanupWorkspace(fs, ws)
       IN  IF x = None
           THEN /\ req' = [req EXCEPT ![r] = Raised(q, "expand", "BadZipFile", gone)]
                /\ fs' = gone
                /\ running' = None
           ELSE /\ req' = [req EXCEPT ![r] = [Complete(q, "expand") EXCEPT !.pc = "locate"]]
                /\ fs' = x[1]
                /\ UNCHANGED running
    /\ UNCHANGED VERCEL_API_TOKEN

\* SegmentSet with the directories os.walk lists among the names it matches
SegmentSet_WithDirs(fsx, root) ==
    {PathOf(e) : e \in {x \in fsx : /\ x.ws = root.ws
                                    /\ StartsWith(x.rel, root.rel \o <<"/">>)
                                    /\ EndsWith(x.rel, <<MarkerExt>>)}}

\* the files os.walk(root) visits whose name ends with a supported extension
SegmentSet(fsx, root) ==
    {PathOf(e) : e \in {x \in fsx : /\ x.kind = "file"
                                    /\ x.ws = root.ws
                                    /\ StartsWith(x.rel, root.rel \o <<"/">>)
                                    /\ EndsWith(x.rel, <<MarkerExt>>)}}

\* the orders in which os.walk can yield them: a directory's files before
\* those of its subdirectories, the files of one directory in any order
WalkOrders(S) ==
    {w \in [1..Cardinality(S) -> S] :
        /\ \A i, j \in 1..Cardinality(S) : i # j => w[i] # w[j]
        /\ \A i, j \in 1..Cardinality(S) : i < j => Depth(w[i].rel) <= Depth(w[j].rel)}

\* lines 119-128
LocateSegments(r) ==
    /\ running = Some(r)
    /\ req[r].pc = "locate"
    /\ LET q == Complete(Begin(req[r], "locate"), "locate")
       IN  \E w \in WalkOrders(SegmentSet(fs, ExtractedPath(q.temp_dir[1]))) :
              req' = [req EXCEPT ![r] =
                 [q EXCEPT !.segment_files = w,
                           !.pc = IF w = <<>> THEN "produce" ELSE "transform"]]
    /\ UNCHANGED <<VERCEL_API_TOKEN, fs, running>>

\* filepath.replace('.tsa', '.mp4'): every occurrence is replaced
ReplaceMarker(rel) ==
    [i \in 1..Len(rel) |-> IF rel[i] = MarkerExt THEN TargetExt ELSE rel[i]]

\* DecryptFrom with the loop left at the first rename that fails
DecryptFrom_Abort(files, fsx, out) ==
    LET RECURSIVE Go(_, _, _)
        Go(fl, fx, o) ==
            IF fl = <<>> THEN [fs |-> fx, out |-> o]
            ELSE LET filepath == Head(fl)
                     decrypted == [ws |-> filepath.ws, rel |-> [i \in 1..Len(filepath.rel) |->
                                      IF filepath.rel[i] = MarkerExt THEN TargetExt
                                      ELSE filepath.rel[i]]]
                     rn == Rename(fx, filepath, decrypted)
                 IN  IF EndsWith(filepath.rel, <<MarkerExt>>)
                     THEN IF rn # None
                          THEN Go(Tail(fl), rn[1], Append(o, decrypted))
                          ELSE [fs |-> fx, out |-> Append(o, filepath)]
                     ELSE Go(Tail(fl), fx, Append(o, filepath))
    IN  Go(files, fsx, out)

\* decrypt_files_placeholder, lines 78-91: the loop, from the files left to visit
RECURSIVE DecryptFrom(_, _, _)
DecryptFrom(files, fsx, out) ==
    IF files = <<>> THEN [fs |-> fsx, out |-> out]
    ELSE LET filepath == Head(files)
             decrypted == [ws |-> filepath.ws, rel |-> ReplaceMarker(filepath.rel)]
             rn == Rename(fsx, filepath, decrypted)
         IN  IF EndsWith(filepath.rel, <<MarkerExt>>)
             THEN IF rn # None
                  THEN DecryptFrom(Tail(files), rn[1], Append(out, decrypted))
                  ELSE DecryptFrom(Tail(files), fsx, Append(out, filepath))
             ELSE DecryptFrom(Tail(files), fsx, Append(out, filepath))

DecryptFiles(files, fsx) == DecryptFrom(files, fsx, <<>>)

\* line 129
Transform(r) ==
    /\ running = Some(r)
    /\ req[r].pc = "transform"
    /\ LET q == Complete(Begin(req[r], "transform"), "transform")
           d == DecryptFiles(q.segment_files, fs)
       IN  /\ fs' = d.fs
           /\ req' = [req EXCEPT ![r] = [q EXCEPT !.decrypted_files = d.out, !.pc = "produce"]]
    /\ UNCHANGED <<VERCEL_API_TOKEN, running>>

\* line 131, process_final_output_placeholder
ProduceOutput(r) ==
    /\ running = Some(r)
    /\ req[r].pc = "produce"
    /\ LET q == Begin(req[r], "output")
           ws == q.temp_dir[1]
           w == WriteFile(fs, OutputPath(ws), "mkv")
           gone == CleanupWorkspace(fs, ws)
       IN  IF w = None
           THEN /\ req' = [req EXCEPT ![r] = Raised(q, "output", "OSError", gone)]
                /\ fs' = gone
                /\ running' = None
           ELSE /\ req' = [req EXCEPT ![r] = [Complete(q, "output") EXCEPT !.pc = "exit_ws"]]
                /\ fs' = w[1]
                /\ UNCHANGED running
    /\ UNCHANGED VERCEL_API_TOKEN

\* line 132: the return leaves the with block, whose exit deletes the workspace
ExitWorkspace(r) ==
    /\ running = Some(r)
    /\ req[r].pc = "exit_ws"
    /\ LET q == req[r]
           ws == q.temp_dir[1]
           gone == CleanupWorkspace(fs, ws)
       IN  /\ req' = [req EXCEPT ![r] = Returned(q, Some(OutputPath(ws)), gone)]
           /\ fs' = gone
    /\ running' = None
    /\ UNCHANGED VERCEL_API_TOKEN

\* lines 183-198: what follows the check of line 183, one reply at a time
FinishReply(r, sent) ==
    /\ running = None
    /\ req[r].pc \in {"fail_reply", "sending", "send_error_reply"}
    /\ LET q == req[r]
           rm == Remove(fs, q.output_mkv_path[1])
       IN  IF q.pc = "fail_reply"
           THEN /\ req' = [req EXCEPT ![r] = Finished(q, "failed")]
                /\ UNCHANGED fs
           ELSE IF q.pc = "sending" /\ ~sent
           THEN /\ req' = [req EXCEPT ![r] = [q EXCEPT !.pc = "send_error_reply"]]
                /\ UNCHANGED fs
           ELSE /\ req' = [req EXCEPT ![r] =
                      Finished(q, IF q.pc = "sending" THEN "document" ELSE "send_error")]
                /\ fs' = IF rm = None THEN fs ELSE rm[1]
    /\ UNCHANGED <<VERCEL_API_TOKEN, running>>

\* ----------------------------------------------------------- specifications
Pipeline(r) ==
    \/ EnterOrchestrator(r)
    \/ \E status \in HttpStatuses, body \in KeyBodies : KeyResponse(r, status, body)
    \/ \E status \in HttpStatuses : DownloadResponse(r, status)
    \/ \E id \in ArchiveIds, ok \in BOOLEAN : DownloadBody(r, id, ok)
    \/ ExtractZip(r)
    \/ LocateSegments(r)
    \/ Transform(r)
    \/ ProduceOutput(r)
    \/ ExitWorkspace(r)

\* the bot: chat commands arrive and are handled
Next ==
    \/ \E args \in SetArgs : SetApiToken(args)
    \/ \E r \in Reqs, args \in DownloadArgs : DownloadCommand(r, args)
    \/ \E r \in Reqs : Pipeline(r)
    \/ \E r \in Reqs, sent \in BOOLEAN : FinishReply(r, sent)

Spec == Init /\ [][Next]_vars

\* process_appx_zip_logic called directly, with whatever credential is set
DirectUrls == {UrlGood, UrlNoId, UrlUpperHex}

NextOrch ==
    \/ \E args \in SetArgs : SetApiToken(args)
    \/ \E r \in Reqs, u \in DirectUrls : CallDirect(r, u)
    \/ \E r \in Reqs : Pipeline(r)

SpecOrch == Init /\ [][NextOrch]_vars

\* ------------------------------------------------------------------ claims
StageOrder == <<"key", "download", "expand", "locate", "transform", "output">>
StageIndex(st) == CHOOSE i \in 1..Len(StageOrder) : StageOrder[i] = st
InSeq(x, q) == \E i \in 1..Len(q) : q[i] = x

\* where a request stands once process_appx_zip_logic has been left
Completed == {"fail_reply", "sending", "send_error_reply", "returned", "crashed", "done"}

\* C1: when every stage of a download's pipeline has succeeded, the path the
\* Orchestrator returned names a file that exists when the handler receives it,
\* and the handler is delivering it (not sending the failure notice).
C1_DeliveredOnSuccess ==
    \A r \in Reqs :
        (req[r].caller = "handler" /\ req[r].failed = None /\ req[r].output_mkv_path # None)
        => /\ Exists(fs, req[r].output_mkv_path[1])
           /\ req[r].pc \in {"sending", "send_error_reply"}

\* C2: in the step in which an Orchestrator run that had created its workspace
\* completes (by return or by a failure of any stage), every entry of that
\* workspace, the directory itself included, is gone from the filesystem.
C2_WorkspaceGone ==
    [][\A r \in Reqs :
          (req[r].temp_dir # None /\ req'[r].pc \in Completed)
          => \A e \in fs' : e.ws # req[r].temp_dir[1]]_vars

C2_Witness ==
    \E r \in Reqs :
        /\ req[r].pc = "fail_reply"
        /\ req[r].stageDone = StageOrder
        /\ fs = {}

\* C3: a run entered while no ApiToken is set ends in that very step with the
\* failure value, having issued no HTTP request (no POST, no GET) and touched
\* no file; a run that ended at the credential guard never has a call on record.
C3_GuardStep ==
    \A r \in Reqs :
        (req[r].pc = "enter" /\ req'[r].pc # "enter" /\ VERCEL_API_TOKEN = None)
        => /\ req'[r].pc \in Completed
           /\ req'[r].output_mkv_path = None
           /\ req'[r].netCalls = <<>>
           /\ req'[r].http = None
           /\ fs' = fs

C3_GuardInv ==
    \A r \in Reqs :
        (req[r].failed # None /\ req[r].failed[1].stage = "guard")
        => req[r].netCalls = <<>> /\ req[r].http = None /\ req[r].stageLog = <<>>

C3_NoTokenNoCall == []C3_GuardInv /\ [][C3_GuardStep]_vars

C3_Witness ==
    \E r \in Reqs :
        /\ VERCEL_API_TOKEN = None
        /\ req[r].pc = "returned"
        /\ req[r].failed = Some([stage |-> "guard", kind |-> "NoCredential"])

\* C4: the stages of a run begin in the fixed order key, download, expand,
\* locate, transform, output (transform being skipped exactly when no segment
\* was located); a stage begins only when every stage begun before it has
\* completed; the stage that fails is the last one begun; and the archive GET is
\* issued only after key resolution has completed.
C4_Ordered(log) ==
    \A i \in 1..Len(log) :
        /\ InSeq(log[i], StageOrder)
        /\ i = 1 => log[i] = "key"
        /\ i > 1 => \/ StageIndex(log[i]) = StageIndex(log[i - 1]) + 1
                    \/ log[i - 1] = "locate" /\ log[i] = "output"

C4_StageOrder ==
    \A r \in Reqs :
        LET q == req[r]
        IN  /\ C4_Ordered(q.stageLog)
            /\ Len(q.stageDone) <= Len(q.stageLog)
            /\ Len(q.stageLog) <= Len(q.stageDone) + 1
            /\ SubSeq(q.stageLog, 1, Len(q.stageDone)) = q.stageDone
            /\ (q.failed # None /\ q.failed[1].stage # "guard")
               => q.stageLog = Append(q.stageDone, q.failed[1].stage)
            /\ (q.failed # None /\ q.failed[1].stage = "guard") => q.stageLog = <<>>
            /\ InSeq("POST", q.netCalls) => InSeq("key", q.stageLog)
            /\ InSeq("GET", q.netCalls) => InSeq("key", q.stageDone)
            /\ (q.temp_dir # None /\ InSeq("locate", q.stageDone))
               => (InSeq("transform", q.stageLog) <=> q.segment_files # <<>>)
                  \/ q.pc = "transform"

C4_Witness ==
    \E r1, r2 \in Reqs :
        /\ req[r1].stageDone = StageOrder
        /\ req[r2].failed # None
        /\ req[r2].failed[1].stage = "key"
        /\ req[r2].netCalls = <<"POST">>

\* C5: no run ever leaves the download handler with an exception: a run in which
\* a stage has failed has returned the failure value and the handler's next and
\* last reply is the generic failure message.
C5_CaughtInv ==
    \A r \in Reqs :
        /\ req[r].pc # "crashed"
        /\ req[r].failed # None
           => req[r].pc \in {"fail_reply", "returned"} /\ req[r].output_mkv_path = None

C5_ReplyStep ==
    \A r \in Reqs :
        (req[r].pc = "fail_reply" /\ req'[r].pc # "fail_reply")
        => req'[r].pc = "done" /\ req'[r].reply = "failed"

C5_FailuresCaught == []C5_CaughtInv /\ [][C5_ReplyStep]_vars

C5_Witness ==
    \E r1, r2 \in Reqs :
        /\ req[r1].pc = "fail_reply"
        /\ req[r1].failed # None
        /\ req[r1].failed[1].kind = "BadZipFile"
        /\ req[r2].pc = "fail_reply"
        /\ req[r2].failed # None
        /\ req[r2].failed[1].kind = "ValueError"

\* C6: a download command whose URL lacks the http:// or https:// prefix or the
\* .zip suffix is finished by the step that receives it, with a rejection reply
\* (the invalid-URL notice whenever a credential is set, the missing-credential
\* notice otherwise): it never enters the Orchestrator, issues no HTTP request
\* and leaves the filesystem as it was.
C6_BadUrl(u) ==
    \/ /\ ~(Len(u) >= 7 /\ SubSeq(u, 1, 7) = <<"h", "t", "t", "p", ":", "/", "/">>)
       /\ ~(Len(u) >= 8 /\ SubSeq(u, 1, 8) = <<"h", "t", "t", "p", "s", ":", "/", "/">>)
    \/ ~(Len(u) >= 4 /\ SubSeq(u, Len(u) - 3, Len(u)) = <<".", "z", "i", "p">>)

C6_RejectedInv ==
    \A r \in Reqs :
        (req[r].cmdArgs # None /\ C6_BadUrl(req[r].cmdArgs[1]))
        => /\ req[r].pc = "done"
           /\ req[r].reply \in {"invalid_url", "no_token"}
           /\ req[r].caller = "none"
           /\ req[r].netCalls = <<>>
           /\ req[r].stageLog = <<>>
           /\ req[r].temp_dir = None

C6_RejectedStep ==
    \A r \in Reqs :
        (req[r].pc = "idle" /\ req'[r].cmdArgs # None /\ C6_BadUrl(req'[r].cmdArgs[1]))
        => /\ fs' = fs
           /\ req'[r].pc = "done"
           /\ VERCEL_API_TOKEN # None => req'[r].reply = "invalid_url"

C6_BadUrlRejected == []C6_RejectedInv /\ [][C6_RejectedStep]_vars

C6_Witness ==
    \E r1, r2 \in Reqs :
        /\ req[r1].cmdArgs = Some(UrlNotZip)
        /\ req[r1].reply = "invalid_url"
        /\ req[r2].cmdArgs = Some(UrlBadScheme)
        /\ req[r2].reply = "invalid_url"

\* C7: a set_api_token command whose argument has exactly two dots (three
\* segments) makes the ApiToken that argument, trimmed, whatever it was before;
\* a command with no argument or another number of segments leaves it unchanged.
C7_Dots(a) == Cardinality({i \in 1..Len(a) : a[i] = "."})

C7_SetTokenShape ==
    [][\A a \in SetArgs :
          SetApiToken(a)
          => IF a # None /\ a[1] # <<>> /\ C7_Dots(a[1]) = 2
             THEN VERCEL_API_TOKEN' = Some(Strip(a[1]))
             ELSE VERCEL_API_TOKEN' = VERCEL_API_TOKEN]_vars

C7_Witness ==
    \E r \in Reqs :
        /\ req[r].tokenAtAccept = Some(TokABC)
        /\ VERCEL_API_TOKEN = Some(<<"x", ".", "y", ".", "z">>)

\* C8: the credential a download sends to the key service is the ApiToken as it
\* is when the Orchestrator is entered, not as it was when the command was
\* accepted: a set_api_token handled in between changes what is sent.
C8_TokenReadAtEntry ==
    [][\A r \in Reqs :
          (req[r].pc = "enter" /\ req'[r].pc = "await_key")
          => /\ req'[r].http # None
             /\ req'[r].http[1].method = "POST"
             /\ req'[r].http[1].token = VERCEL_API_TOKEN]_vars

C8_Witness ==
    \E r \in Reqs :
        /\ req[r].caller = "handler"
        /\ req[r].pc = "await_key"
        /\ req[r].tokenAtAccept # None
        /\ req[r].http[1].token # req[r].tokenAtAccept

\* C9: every entry of the filesystem lies in the workspace of a request that is
\* inside its pipeline, so a finished handler has left nothing behind; and in
\* the step that finishes a handler the path it was returned names no file.
C9_OwnedInv ==
    \A e \in fs :
        \E r \in Reqs : req[r].pc \notin {"idle", "done"} /\ req[r].temp_dir = Some(e.ws)

C9_FinishStep ==
    \A r \in Reqs :
        (req[r].pc # "done" /\ req'[r].pc = "done" /\ req[r].output_mkv_path # None)
        => ~Exists(fs', req[r].output_mkv_path[1])

C9_NothingLeftBehind == []C9_OwnedInv /\ [][C9_FinishStep]_vars

C9_Witness ==
    \E r \in Reqs :
        /\ req[r].pc = "done"
        /\ req[r].reply = "failed"
        /\ req[r].cmdArgs = Some(UrlGood)
        /\ fs = {}

\* C10: two requests that are inside their with blocks at the same time have
\* different workspace directories, and a step that is not a step of request r
\* leaves every entry of r's workspace as it was.
C10_DistinctInv ==
    \A r1, r2 \in Reqs :
        (r1 # r2 /\ req[r1].temp_dir # None /\ req[r2].temp_dir # None)
        => req[r1].temp_dir # req[r2].temp_dir

C10_OthersStep ==
    \A r \in Reqs :
        (req[r].temp_dir # None /\ req'[r].pc = req[r].pc)
        => {e \in fs' : e.ws = req[r].temp_dir[1]} = {e \in fs : e.ws = req[r].temp_dir[1]}

C10_WorkspaceExclusive == []C10_DistinctInv /\ [][C10_OthersStep]_vars

C10_Witness ==
    \E r1, r2 \in Reqs :
        /\ r1 # r2
        /\ req[r1].temp_dir # None
        /\ req[r2].temp_dir # None
        /\ IsFile(fs, ZipFilePath(req[r1].temp_dir[1]))
        /\ IsFile(fs, ZipFilePath(req[r2].temp_dir[1]))

\* C11: a URL in which no 'encrypted-' is followed by a lowercase hex character
\* makes the key resolver fail with ValueError, and the run issues no HTTP call
C11_Malformed(u) ==
    ~\E i \in 1..Len(u) :
        /\ i + Len(EncPrefix) <= Len(u)
        /\ \A k \in 1..Len(EncPrefix) : u[i + k - 1] = EncPrefix[k]
        /\ u[i + Len(EncPrefix)] \in HexChars

C11_MalformedNoCall ==
    \A r \in Reqs :
        (req[r].pc \notin {"idle", "enter"} /\ C11_Malformed(req[r].zipurl)) =>
            /\ req[r].netCalls = <<>>
            /\ req[r].http = None
            /\ req[r].temp_dir = None
            /\ req[r].failed =
                  IF InSeq("key", req[r].stageLog)
                  THEN Some([stage |-> "key", kind |-> "ValueError"])
                  ELSE Some([stage |-> "guard", kind |-> "NoCredential"])

C11_Witness ==
    \E r \in Reqs :
        /\ req[r].zipurl = UrlUpperHex
        /\ req[r].pc = "returned"
        /\ req[r].failed = Some([stage |-> "key", kind |-> "ValueError"])
        /\ req[r].netCalls = <<>>

\* C12: a key reply whose status is 400 or more ends the run with the upstream
\* error whatever its body holds, and no key is taken from it
C12_StatusFirst ==
    [][\A r \in Reqs, status \in HttpStatuses, body \in KeyBodies :
          (status >= 400 /\ KeyResponse(r, status, body)) =>
              /\ req'[r].failed = Some([stage |-> "key", kind |-> "ClientResponseError"])
              /\ req'[r].hls_key = None
              /\ ~InSeq("key", req'[r].stageDone)
              /\ req'[r].netCalls = <<"POST">>
              /\ req'[r].pc = "returned"]_vars

C12_Witness ==
    \E r \in Reqs :
        /\ req[r].failed = Some([stage |-> "key", kind |-> "ClientResponseError"])
        /\ req[r].netCalls = <<"POST">>
        /\ req[r].pc = "returned"

\* C13: a key reply with a success status whose object has no 'key', or an
\* empty one, ends the run with the missing-key error, and a key the resolver
\* returned is never empty
C13_KeyInv ==
    \A r \in Reqs :
        /\ req[r].hls_key # None => req[r].hls_key[1] # <<>>
        /\ (InSeq("key", req[r].stageDone) /\ req[r].temp_dir # None) => req[r].hls_key # None

C13_MissingStep ==
    \A r \in Reqs, status \in HttpStatuses, body \in KeyBodies :
        (status < 400 /\ body.key \in {None, Some(<<>>)} /\ KeyResponse(r, status, body)) =>
            /\ req'[r].failed = Some([stage |-> "key", kind |-> "KeyError"])
            /\ ~InSeq("key", req'[r].stageDone)
            /\ req'[r].netCalls = <<"POST">>

C13_KeyNonEmpty == []C13_KeyInv /\ [][C13_MissingStep]_vars

C13_Witness ==
    /\ \E r \in Reqs : req[r].failed = Some([stage |-> "key", kind |-> "KeyError"])
    /\ \E r \in Reqs : req[r].hls_key = Some(KeyValue)

\* C14: a run issues at most one POST, then at most one GET, and a failure of
\* either has ended the run
C14_AtMostOnce ==
    \A r \in Reqs :
        /\ req[r].netCalls \in {<<>>, <<"POST">>, <<"POST", "GET">>}
        /\ (req[r].failed # None /\ req[r].failed[1].stage \in {"key", "download"}) =>
              /\ req[r].pc \in {"fail_reply", "returned"}
              /\ req[r].http = None
              /\ req[r].temp_dir = None
              /\ req[r].netCalls =
                    IF req[r].failed[1].stage = "key" /\ req[r].failed[1].kind = "ValueError"
                    THEN <<>>
                    ELSE IF req[r].failed[1].stage = "key" THEN <<"POST">>
                    ELSE <<"POST", "GET">>

C14_Witness ==
    /\ \E r \in Reqs :
          /\ req[r].failed = Some([stage |-> "download", kind |-> "ClientResponseError"])
          /\ req[r].netCalls = <<"POST", "GET">>
          /\ req[r].pc = "fail_reply"
    /\ \E r \in Reqs :
          /\ req[r].failed = Some([stage |-> "key", kind |-> "ClientResponseError"])
          /\ req[r].netCalls = <<"POST">>
          /\ req[r].pc = "fail_reply"

\* the run of r is inside the with block and its transformer has returned
AfterTransform(r) == req[r].temp_dir # None /\ InSeq("transform", req[r].stageDone)

\* C15: for segment files at any depth and under any directory and file names,
\* the transformer returns one path per segment, each ending with the target
\* extension, and none of the segments' original names exists afterwards
C15_AllRenamed ==
    \A r \in Reqs :
        AfterTransform(r) =>
            /\ Len(req[r].decrypted_files) = Len(req[r].segment_files)
            /\ \A i \in 1..Len(req[r].decrypted_files) :
                  EndsWith(req[r].decrypted_files[i].rel, <<TargetExt>>)
            /\ \A i \in 1..Len(req[r].segment_files) : ~Exists(fs, req[r].segment_files[i])

\* C16: a renamed segment's new path is its old path with only the final marker
\* extension replaced, and distinct segments are renamed to distinct targets
C16_SwapTrailing(p) ==
    [ws |-> p.ws, rel |-> SubSeq(p.rel, 1, Len(p.rel) - 1) \o <<TargetExt>>]

C16_Renamed(r, i) == req[r].decrypted_files[i] # req[r].segment_files[i]

C16_TrailingSwapOnly ==
    \A r \in Reqs :
        AfterTransform(r) =>
            /\ \A i \in 1..Len(req[r].decrypted_files) :
                  C16_Renamed(r, i) =>
                      req[r].decrypted_files[i] = C16_SwapTrailing(req[r].segment_files[i])
            /\ \A i, j \in 1..Len(req[r].decrypted_files) :
                  (i # j /\ C16_Renamed(r, i) /\ C16_Renamed(r, j)) =>
                      req[r].decrypted_files[i] # req[r].decrypted_files[j]

\* C17: a rename that fails leaves its path unchanged in the transformer's
\* output, the paths after it are still processed, the output has one entry per
\* input path in the input's order, and the run goes on to the output producer
C17_FailureTolerated ==
    \A r \in Reqs :
        /\ req[r].failed # None => req[r].failed[1].stage # "transform"
        /\ AfterTransform(r) =>
              /\ req[r].pc \in {"produce", "exit_ws"}
              /\ req[r].failed = None
              /\ Len(req[r].decrypted_files) = Len(req[r].segment_files)
              /\ \A i \in 1..Len(req[r].segment_files) :
                    IF IsFile(fs, req[r].segment_files[i])
                    THEN req[r].decrypted_files[i] = req[r].segment_files[i]
                    ELSE /\ req[r].decrypted_files[i] # req[r].segment_files[i]
                         /\ req[r].decrypted_files[i].ws = req[r].segment_files[i].ws
                         /\ EndsWith(req[r].decrypted_files[i].rel, <<TargetExt>>)
                         /\ IsFile(fs, req[r].decrypted_files[i])

C17_Witness ==
    \E r \in Reqs :
        /\ req[r].pc = "exit_ws"
        /\ Len(req[r].segment_files) = 2
        /\ req[r].decrypted_files[1] = req[r].segment_files[1]
        /\ IsFile(fs, req[r].segment_files[1])
        /\ req[r].decrypted_files[2] # req[r].segment_files[2]
        /\ IsFile(fs, req[r].decrypted_files[2])
        /\ IsFile(fs, OutputPath(req[r].temp_dir[1]))

\* C18: the locator's list holds every regular file below the expanded root
\* whose name ends with the marker extension, each once, and nothing else; when
\* there is none the transformer is not called and the run still produces the
\* output and returns its path
C18_MarkerFiles(ws) ==
    {PathOf(e) : e \in {x \in fs : /\ x.kind = "file"
                                   /\ x.ws = ws
                                   /\ Len(x.rel) >= 3
                                   /\ x.rel[1] = "extracted"
                                   /\ x.rel[2] = "/"
                                   /\ x.rel[Len(x.rel)] = MarkerExt}}

C18_Located(r) == req[r].temp_dir # None /\ InSeq("locate", req[r].stageDone)

C18_StagesWithoutTransform == <<"key", "download", "expand", "locate", "output">>

C18_ExactlyMarkers ==
    \A r \in Reqs :
        /\ (C18_Located(r) /\ req[r].pc \in {"transform", "produce"}
                /\ ~InSeq("transform", req[r].stageLog)) =>
              /\ \A i, j \in 1..Len(req[r].segment_files) :
                    i # j => req[r].segment_files[i] # req[r].segment_files[j]
              /\ {req[r].segment_files[i] : i \in 1..Len(req[r].segment_files)}
                    = C18_MarkerFiles(req[r].temp_dir[1])
              /\ req[r].pc = IF req[r].segment_files = <<>> THEN "produce" ELSE "transform"
        /\ (C18_Located(r) /\ req[r].segment_files = <<>>) =>
              /\ ~InSeq("transform", req[r].stageLog)
              /\ req[r].failed = None
              /\ req[r].pc \in {"produce", "exit_ws"}
        /\ (C18_Located(r) /\ InSeq("transform", req[r].stageLog)) => req[r].segment_files # <<>>
        /\ (req[r].stageDone = C18_StagesWithoutTransform
                /\ req[r].pc \in {"fail_reply", "sending", "returned"}) =>
              /\ req[r].failed = None
              /\ req[r].output_mkv_path # None
              /\ req[r].output_mkv_path[1].rel = <<"extracted", "/", "simulated_output", ".mkv">>

C18_Witness ==
    /\ \E r \in Reqs :
          /\ req[r].pc = "transform"
          /\ Len(req[r].segment_files) = 2
          /\ \E e \in fs : /\ e.ws = req[r].temp_dir[1]
                          /\ e.kind = "file"
                          /\ e.rel[1] = "extracted"
                          /\ PathOf(e) \notin C18_MarkerFiles(req[r].temp_dir[1])
    /\ \E r \in Reqs :
          /\ req[r].stageDone = C18_StagesWithoutTransform
          /\ req[r].output_mkv_path # None
          /\ req[r].pc = "fail_reply"

\* C19: the credential is unset or a string of exactly three dot-separated
\* segments; once set it is never unset; only an accepted /set_api_token
\* changes it, no /download handler or pipeline step does
C19_Segments(t) == Cardinality({i \in 1..Len(t) : t[i] = "."}) + 1

C19_ShapeInv ==
    VERCEL_API_TOKEN = None \/ C19_Segments(VERCEL_API_TOKEN[1]) = 3

C19_ChangeStep ==
    /\ VERCEL_API_TOKEN # None => VERCEL_API_TOKEN' # None
    /\ VERCEL_API_TOKEN' # VERCEL_API_TOKEN =>
          /\ req' = req
          /\ fs' = fs
          /\ \E a \in SetArgs :
                /\ a # None
                /\ C19_Segments(a[1]) = 3
                /\ SetApiToken(a)
    /\ (\E r \in Reqs : req'[r] # req[r]) => VERCEL_API_TOKEN' = VERCEL_API_TOKEN

C19_TokenStable == []C19_ShapeInv /\ [][C19_ChangeStep]_vars

C19_Witness ==
    /\ VERCEL_API_TOKEN = Some(<<"x", ".", "y", ".", "z">>)
    /\ \E r \in Reqs : req[r].pc = "fail_reply" /\ req[r].failed # None
    /\ \E r \in Reqs : req[r].pc = "done" /\ req[r].reply = "failed"

\* C20: the credential carried by a key-fetch POST is never unset and never
\* empty, whatever other handlers ran while the command was being processed
C20_SentTokenSet ==
    \A r \in Reqs :
        (req[r].http # None /\ req[r].http[1].method = "POST") =>
            /\ req[r].http[1].token # None
            /\ req[r].http[1].token[1] # <<>>

C20_Witness ==
    \E r \in Reqs :
        /\ req[r].pc = "await_key"
        /\ req[r].http # None
        /\ req[r].http[1].method = "POST"
        /\ req[r].http[1].token = Some(TokABC)
        /\ VERCEL_API_TOKEN = Some(<<"x", ".", "y", ".", "z">>)

====
